---- MODULE Spec2Model ----
(***************************************************************************)
(* Model of Lab2/server.py: the multithreaded HTTP file server with a      *)
(* per-IP sliding-window rate limiter, per-path request counters and a     *)
(* server total.  One thread per accepted connection runs handle_request.  *)
(*                                                                         *)
(* Strings (paths, file names) are sequences of one-character strings, so  *)
(* that str.startswith, os.path.realpath, os.path.relpath and              *)
(* os.path.splitext are computed on characters as the code computes them.  *)
(*                                                                         *)
(* The handler threads in flight are a bag of records of their locals: two *)
(* threads at the same place with the same locals are interchangeable.     *)
(***************************************************************************)
EXTENDS Integers, Sequences, FiniteSets, Bags, TLC

\* ------------------------------------------------------------------ bounds

\* Connections the listener accepts in a run of Spec and in a run of SpecRate.
MaxConns == 2
RateConns == 7
\* Connections of the second client in a run of SpecPair.
OtherConns == 1
\* Handler threads that are runnable (accepted, not sleeping, not ended) at once.
MaxRunning == 2
\* Clock resolution and horizon: time.time() is read in ticks.
TicksPerSecond == 2
MaxTime == 2
\* I/O operations (recv, send, file read) that raise in one run.
MaxFaults == 1

\* ------------------------------------------------------- program constants

RATE_LIMIT == 5
RATE_WINDOW == 1 * TicksPerSecond
SLEEP_SECONDS == 1 * TicksPerSecond

\* ----------------------------------------------------------------- strings

Slash == "/"
Dot == "."

\* str.startswith(prefix): a comparison of characters.
StartsWith(s, p) ==
    /\ Len(p) <= Len(s)
    /\ SubSeq(s, 1, Len(p)) = p

\* str.lstrip('/')
RECURSIVE LStrip(_)
LStrip(s) ==
    IF s # <<>> /\ Head(s) = Slash THEN LStrip(Tail(s)) ELSE s

\* str.lower() on the characters that occur in the served names.
LowerChar(ch) ==
    CASE ch = "H" -> "h"
      [] ch = "T" -> "t"
      [] ch = "M" -> "m"
      [] ch = "L" -> "l"
      [] OTHER -> ch

Lower(s) == [i \in 1..Len(s) |-> LowerChar(s[i])]

\* s.split('/'): the segments between slashes, empty ones included.
RECURSIVE SplitSlash(_, _)
SplitSlash(s, cur) ==
    IF s = <<>> THEN <<cur>>
    ELSE IF Head(s) = Slash THEN <<cur>> \o SplitSlash(Tail(s), <<>>)
    ELSE SplitSlash(Tail(s), Append(cur, Head(s)))

\* '/'.join(segs)
RECURSIVE JoinSlash(_)
JoinSlash(segs) ==
    IF segs = <<>> THEN <<>>
    ELSE IF Len(segs) = 1 THEN segs[1]
    ELSE segs[1] \o <<Slash>> \o JoinSlash(Tail(segs))

\* ------------------------------------------------------------------- paths

DotDot == <<Dot, Dot>>

\* os.path.normpath on the segments of an absolute path: '' and '.' vanish,
\* '..' drops the segment before it and is itself dropped at the root.
RECURSIVE NormSegs(_, _)
NormSegs(segs, acc) ==
    IF segs = <<>> THEN acc
    ELSE LET h == Head(segs) IN
         IF h = <<>> \/ h = <<Dot>> THEN NormSegs(Tail(segs), acc)
         ELSE IF h = DotDot
              THEN NormSegs(Tail(segs),
                            IF acc = <<>> THEN acc ELSE SubSeq(acc, 1, Len(acc) - 1))
              ELSE NormSegs(Tail(segs), Append(acc, h))

Segs(path) == NormSegs(SplitSlash(path, <<>>), <<>>)

\* os.path.realpath of an absolute path (the served tree holds no symlinks).
RealPath(path) == <<Slash>> \o JoinSlash(Segs(path))

\* os.path.join(a, b) for a relative b (url_path has lost its leading slashes).
PathJoin(a, b) ==
    IF a # <<>> /\ a[Len(a)] = Slash THEN a \o b ELSE a \o <<Slash>> \o b

\* Length of the longest common prefix of two segment lists.
RECURSIVE CommonLen(_, _)
CommonLen(a, b) ==
    IF a = <<>> \/ b = <<>> \/ Head(a) # Head(b) THEN 0
    ELSE 1 + CommonLen(Tail(a), Tail(b))

\* os.path.relpath(path, start)
RelPath(path, start) ==
    LET p == Segs(path)
        s == Segs(start)
        k == CommonLen(p, s)
        ups == [i \in 1..(Len(s) - k) |-> DotDot]
        rest == ups \o SubSeq(p, k + 1, Len(p))
    IN  IF rest = <<>> THEN <<Dot>> ELSE JoinSlash(rest)

\* os.path.splitext(p)[1]: from the last dot of the last component, when that
\* dot is not the component's first character.
RECURSIVE LastDot(_, _)
LastDot(name, i) ==
    IF i = 0 THEN 0
    ELSE IF name[i] = Dot THEN i
    ELSE LastDot(name, i - 1)

SplitExt(path) ==
    LET segs == SplitSlash(path, <<>>)
        name == segs[Len(segs)]
        d == LastDot(name, Len(name))
    IN  IF d <= 1 THEN <<>> ELSE SubSeq(name, d, Len(name))

\* ------------------------------------------------------------- served tree

\* sys.argv[1], the directory served; beside it lie a directory whose name
\* begins with the served directory's name, and one whose name does not.
BASE == <<"/", "b">>

F_a_html == <<"/", "b", "/", "a", ".", "h", "t", "m", "l">>
F_d_n_txt == <<"/", "b", "/", "d", "/", "n", ".", "t", "x", "t">>
D_d == <<"/", "b", "/", "d">>
D_bb == <<"/", "b", "b">>
F_bb_s == <<"/", "b", "b", "/", "s", ".", "h", "t", "m", "l">>
D_x == <<"/", "x">>
F_x_s == <<"/", "x", "/", "s", ".", "h", "t", "m", "l">>

Directories == {<<"/">>, BASE, D_d, D_bb, D_x}
Files == {F_a_html, F_d_n_txt, F_bb_s, F_x_s}

\* os.path.isdir / os.path.isfile: the path is resolved, then looked up.
IsDir(path) == RealPath(path) \in Directories
IsFile(path) == RealPath(path) \in Files

\* os.listdir(d): the names of the tree's entries directly under d, in no order.
Children(path) ==
    LET d == Segs(path) IN
    {Segs(p)[Len(Segs(p))] :
        p \in {q \in Files \cup Directories :
                  /\ Len(Segs(q)) = Len(d) + 1
                  /\ SubSeq(Segs(q), 1, Len(d)) = d}}

\* The characters of the served names, in code-point order.
Alphabet == <<".", "/", "H", "L", "M", "T", "a", "b", "d", "h", "l", "m", "n",
              "s", "t", "x">>
Ord(ch) == CHOOSE i \in 1..Len(Alphabet) : Alphabet[i] = ch

\* a < b for str: the first differing character decides, a proper prefix is less.
RECURSIVE Less(_, _)
Less(a, b) ==
    IF b = <<>> THEN FALSE
    ELSE IF a = <<>> THEN TRUE
    ELSE IF Head(a) # Head(b) THEN Ord(Head(a)) < Ord(Head(b))
    ELSE Less(Tail(a), Tail(b))

\* sorted(names)
RECURSIVE Descending(_)
Descending(names) ==
    IF names = {} THEN <<>>
    ELSE LET last == CHOOSE x \in names : \A y \in names \ {x} : Less(y, x)
         IN  <<last>> \o Descending(names \ {last})
RECURSIVE Sorted(_)
Sorted(names) ==
    IF names = {} THEN <<>>
    ELSE LET first == CHOOSE x \in names : \A y \in names \ {x} : Less(x, y)
         IN  <<first>> \o Sorted(names \ {first})

\* sorted(os.listdir(d))
ListDir(path) == Sorted(Children(path))

\* ------------------------------------------------------------------- MIME

\* MIME_TYPES.get(ext): "none" stands for None.
MimeLookup(ext) ==
    CASE ext = <<".", "h", "t", "m", "l">> -> "text/html"
      [] ext = <<".", "p", "n", "g">> -> "image/png"
      [] ext = <<".", "p", "d", "f">> -> "application/pdf"
      [] OTHER -> "none"

get_content_type(file_path) == MimeLookup(Lower(SplitExt(file_path)))

\* ------------------------------------------------------------------- text

\* Two characters outside ASCII, each one element of a string: U+1F4C1 (the
\* folder sign of the listing's heading) and U+00E9.
Folder == "U+1F4C1"
EAcute == "U+00E9"

\* The bytes str.encode() (UTF-8) yields for one character and for a string:
\* their number.
Utf8Bytes(ch) == IF ch = Folder THEN 4 ELSE IF ch = EAcute THEN 2 ELSE 1
RECURSIVE Utf8Len(_)
Utf8Len(text) ==
    IF text = <<>> THEN 0 ELSE Utf8Bytes(Head(text)) + Utf8Len(Tail(text))

\* f"{n}": the decimal digits of a count.
DigitChars == <<"0", "1", "2", "3", "4", "5", "6", "7", "8", "9">>
RECURSIVE Str(_)
Str(n) ==
    IF n < 10 THEN <<DigitChars[n + 1]>>
    ELSE Str(n \div 10) \o <<DigitChars[(n % 10) + 1]>>

\* A piece of text as len() and len(.encode()) see it, and two pieces joined.
Measure(text) == [chars |-> Len(text), bytes |-> Utf8Len(text)]
Joined(a, b) == [chars |-> a.chars + b.chars, bytes |-> a.bytes + b.bytes]

\* What open(path, 'r').read() returns for the files of the tree.
FileText(path) == <<"c", "a", "f", EAcute>>

\* --------------------------------------------------------------- requests

\* What recv() returns, as the tokens request.split('\n')[0].split() yields.
Req(method, url) == <<method, url, "HTTP/1.1">>

R_root == Req("GET", <<"/">>)
R_file == Req("GET", <<"/", "a", ".", "h", "t", "m", "l">>)
R_text == Req("GET", <<"/", "d", "/", "n", ".", "t", "x", "t">>)
R_missing == Req("GET", <<"/", "m", ".", "h", "t", "m", "l">>)
R_dir == Req("GET", <<"/", "d">>)
R_escape == Req("GET", <<"/", ".", ".", "/", "x", "/", "s", ".", "h", "t", "m", "l">>)
R_sibling == Req("GET", <<"/", ".", ".", "/", "b", "b", "/", "s", ".", "h", "t", "m", "l">>)
R_post == Req("POST", <<"/", "a", ".", "h", "t", "m", "l">>)
R_post_root == Req("POST", <<"/">>)
R_post_escape == Req("POST", R_escape[2])
R_post_text == Req("POST", R_text[2])
R_post_missing == Req("POST", R_missing[2])
R_bad == <<"GET">>
\* recv() returned b'': the peer sent nothing before closing its side.
R_empty == <<>>

Requests ==
    {R_root, R_file, R_text, R_missing, R_dir, R_escape, R_sibling, R_bad,
     R_empty,
     R_post, R_post_root, R_post_escape, R_post_text, R_post_missing}
RateRequests == {R_post}

Client == "10.0.0.1"
Other == "10.0.0.2"
IPs == {Client, Other}

\* handle_request's locals, as functions of the request tokens.
UrlPath(parts) == LStrip(parts[2])
FilePath(parts) == PathJoin(BASE, UrlPath(parts))
real_base == RealPath(BASE)
RealFile(parts) == RealPath(FilePath(parts))
rel_path(parts) == RelPath(RealFile(parts), real_base)

\* The branch handle_request takes once the request is read.
RouteUnchecked(parts) ==
    IF Len(parts) < 2 THEN "drop"
    ELSE IF parts[1] # "GET" THEN "405"
    ELSE IF parts[2] = <<"/">> THEN "root"
    ELSE IF ~StartsWith(RealFile(parts), real_base) THEN "403"
    ELSE IF IsDir(FilePath(parts)) THEN "dir"
    ELSE "file"
RouteMethodLast(parts) ==
    IF Len(parts) < 2 THEN "drop"
    ELSE IF parts[2] = <<"/">> THEN "root"
    ELSE IF ~StartsWith(RealFile(parts), real_base) THEN "403"
    ELSE IF IsDir(FilePath(parts)) THEN "dir"
    ELSE IF ~IsFile(FilePath(parts)) THEN "404"
    ELSE IF parts[1] # "GET" THEN "405"
    ELSE "file"
Route(parts) ==
    IF Len(parts) < 2 THEN "drop"
    ELSE IF parts[1] # "GET" THEN "405"
    ELSE IF parts[2] = <<"/">> THEN "root"
    ELSE IF ~StartsWith(RealFile(parts), real_base) THEN "403"
    ELSE IF IsDir(FilePath(parts)) THEN "dir"
    ELSE IF ~IsFile(FilePath(parts)) THEN "404"
    ELSE "file"

\* The keys request_counts is read or written under: the paths requests
\* resolve to and the entries a listing shows.  An absent key of the
\* defaultdict reads 0, and is held as 0 here.
ItemKeyLocal(dir, item) == item
ItemKey(dir, item) == RelPath(PathJoin(dir, item), BASE)
CountKeys ==
    {rel_path(r) : r \in {q \in Requests : Route(q) \in {"dir", "file", "404"}}}
        \cup UNION {{ItemKey(d, ListDir(d)[i]) : i \in 1..Len(ListDir(d))} :
                        d \in {BASE, D_d}}

\* The directory generate_directory_listing is called for.
ListedDir(parts) == IF Route(parts) = "root" THEN BASE ELSE FilePath(parts)

\* The key a request for entry i of the directory listed for parts is counted
\* under by handle_request: the relative path of the resolved file.
CountedUnder ==
    [parts \in {r \in Requests : Route(r) \in {"root", "dir"}} |->
        [i \in 1..Len(ListDir(ListedDir(parts))) |->
            RelPath(RealPath(PathJoin(ListedDir(parts), ListDir(ListedDir(parts))[i])),
                    real_base)]]

\* What handle_request computes from the request tokens alone: the branch it
\* takes, rel_path, the content type, whether the path is a file and what
\* it holds, and for a listing its heading (the folder sign and url_path)
\* and the sorted entries with the key each entry's count is read under.
Locals(parts) ==
    LET route == Route(parts)
        listed == route \in {"root", "dir"}
        items == IF listed THEN ListDir(ListedDir(parts)) ELSE <<>>
    IN  [route |-> route,
         rel_path |-> IF route \in {"dir", "404", "file"} THEN rel_path(parts)
                      ELSE <<>>,
         content_type |-> IF route = "file" THEN get_content_type(FilePath(parts))
                          ELSE "none",
         is_file |-> route = "file" /\ IsFile(FilePath(parts)),
         file_content |-> IF route = "file" /\ IsFile(FilePath(parts))
                          THEN Measure(FileText(RealFile(parts)))
                          ELSE Measure(<<>>),
         heading |-> Measure(<<Folder>> \o (IF route = "dir"
                                             THEN <<"/">> \o UrlPath(parts)
                                             ELSE <<"/">>)),
         names |-> [i \in 1..Len(items) |-> Measure(items[i])],
         items |-> items,
         keys |-> [i \in 1..Len(items) |-> ItemKey(ListedDir(parts), items[i])]]

\* The same for every request a client sends, computed once.
LocalsOf == [parts \in Requests |-> Locals(parts)]

\* ------------------------------------------------------------- responses

Resp(status, headers) == [status |-> status, headers |-> headers]
R429Plain == Resp(429, {"Content-Type: text/html"})
R429 == Resp(429, {"Content-Type: text/html", "Retry-After: 1"})
R405 == Resp(405, {})
R403 == Resp(403, {})
R404 == Resp(404, {"Content-Type: text/html"})
R415 == Resp(415, {"Content-Type: text/html"})
R500 == Resp(500, {})
R200(content_type, content_length) ==
    [status |-> 200,
     headers |-> {"Content-Type: " \o content_type, "Content-Length"},
     content_length |-> content_length]
\* The second send of a 200: the listing or the file, as a number of bytes.
Body(bytes) == [status |-> 0, headers |-> {}, bytes |-> bytes]

\* ------------------------------------------------------------------ state

VARIABLES
    now,                 \* time.time(), in ticks
    listener,            \* main: "accepting" in the loop; "closed" after KeyboardInterrupt,
                         \* "raised" after another exception, the socket closed by
                         \* finally; "exited" and "crashed" once the process is over
    accepted,            \* connections accepted so far
    handlers,            \* the bag of running handle_request threads: locals and socket
    rate_limit_data,     \* {ip: [timestamp, ...]}
    rate_limit_lock,     \* TRUE while the lock is held
    request_counts,      \* {rel_path: count}
    request_counts_lock,
    total_requests,
    total_requests_lock,
    budget,              \* I/O operations that may still raise in this run
    admitted,            \* history: per ip, the times at which is_rate_limited returned False
    calls,               \* history: per path, the calls of increment_request_count that returned
    served,              \* history: per path, the 200 responses sent in full
    ended,               \* history: the handler that ended last, as it was at its end
    last_call            \* history: per ip, the time.time() of its last is_rate_limited

vars == <<now, listener, accepted, handlers, rate_limit_data, rate_limit_lock,
          request_counts, request_counts_lock, total_requests,
          total_requests_lock, budget, admitted, calls, served, ended,
          last_call>>

rateVars == <<rate_limit_data, rate_limit_lock>>
countVars == <<request_counts, request_counts_lock>>
totalVars == <<total_requests, total_requests_lock>>
history == <<admitted, calls, served, ended, last_call>>

\* A handler thread as handle_request begins: its arguments, its locals, its
\* socket, and what it has done so far to the shared state and the file system.
\* start remembers the counts of the listed entries as they were when the
\* rendering of a listing began; page measures the html built so far (its heading with the folder
\* sign and url_path, the total, and a row per entry with its name and count;
\* the markup around them is ASCII, adds the same number to the page's
\* characters and to its bytes, and is left out); oldest, the first timestamp
\* the client's list held when is_rate_limited was entered (-1: the list was
\* empty).
NewHandler(ip) ==
    [pc |-> "start", client_ip |-> ip, current_time |-> 0, limited |-> FALSE,
     tmp |-> 0, wake |-> 0, parts |-> <<>>, items |-> <<>>, html |-> <<>>,
     shown_total |-> 0, page |-> Measure(<<>>), start |-> <<>>, oldest |-> -1,
     sent |-> <<>>, recvd |-> FALSE, closed |-> FALSE,
     total |-> 0, counts |-> <<>>, fs |-> FALSE, held |-> {}]

NoneEnded ==
    [some |-> FALSE, parts |-> <<>>, limited |-> FALSE, raised |-> FALSE,
     sent |-> <<>>, recvd |-> FALSE, closed |-> FALSE,
     total |-> 0, counts |-> <<>>, fs |-> FALSE]

InitWith(faults) ==
    /\ now = 0
    /\ listener = "accepting"
    /\ accepted = 0
    /\ handlers = EmptyBag
    /\ rate_limit_data = [ip \in IPs |-> <<>>]
    /\ rate_limit_lock = FALSE
    /\ request_counts = [k \in CountKeys |-> 0]
    /\ request_counts_lock = FALSE
    /\ total_requests = 0
    /\ total_requests_lock = FALSE
    /\ budget = faults
    /\ admitted = [ip \in IPs |-> <<>>]
    /\ calls = [k \in CountKeys |-> 0]
    /\ served = [k \in CountKeys |-> 0]
    /\ ended = NoneEnded
    /\ last_call = [ip \in IPs |-> 0]

Init == InitWith(MaxFaults)

\* The handler threads that run: daemon threads stop where they are when the
\* process ends.
Live == IF listener \in {"exited", "crashed"} THEN {} ELSE BagToSet(handlers)

\* Handlers at one of the places pcs.
At(pcs) == BagCardinality([h \in {x \in Live : x.pc \in pcs} |-> handlers[h]])

\* Handlers that are not sleeping.
Running == BagCardinality(handlers) - At({"sleep"})

\* Handler h takes a step and becomes h2; handler h returns.
Step(h, h2) == handlers' = (handlers (-) SetToBag({h})) (+) SetToBag({h2})
Return(h) == handlers' = handlers (-) SetToBag({h})

\* ------------------------------------------------------------ environment

\* The wall clock advances.
Tick ==
    /\ now < MaxTime
    /\ now' = now + 1
    /\ UNCHANGED <<listener, accepted, handlers, rateVars, countVars, totalVars,
                   budget, history>>

\* main: server_socket.accept(), then a new thread running handle_request.
\* max bounds the connections of a run, ips names the clients that connect.
Accept(max, ips) ==
    /\ listener = "accepting"
    /\ accepted < max
    /\ Running < MaxRunning
    /\ accepted' = accepted + 1
    /\ \E ip \in ips : handlers' = handlers (+) SetToBag({NewHandler(ip)})
    /\ UNCHANGED <<now, listener, rateVars, countVars, totalVars, budget, history>>

\* main: KeyboardInterrupt leaves the loop; finally closes the listening socket.
Interrupt ==
    /\ listener = "accepting"
    /\ listener' = "closed"
    /\ UNCHANGED <<now, accepted, handlers, rateVars, countVars, totalVars,
                   budget, history>>

\* main: server_socket.accept() raises for one connection (the peer reset it
\* in the backlog, no descriptor is free).  No except clause of main matches:
\* the loop is left and finally closes the listening socket.
AcceptRaises ==
    /\ listener = "accepting"
    /\ listener' = "raised"
    /\ UNCHANGED <<now, accepted, handlers, rateVars, countVars, totalVars,
                   budget, history>>

\* main: the connection is accepted and thread.start() raises (no new thread
\* can be started).  The loop is left in the same way, the client unanswered.
StartRaises(max) ==
    /\ listener = "accepting"
    /\ accepted < max
    /\ accepted' = accepted + 1
    /\ listener' = "raised"
    /\ UNCHANGED <<now, handlers, rateVars, countVars, totalVars, budget, history>>

\* main returns, or the exception reaches the top: the interpreter exits
\* without waiting for the daemon threads.
Exit ==
    /\ listener \in {"closed", "raised"}
    /\ listener' = IF listener = "closed" THEN "exited" ELSE "crashed"
    /\ UNCHANGED <<now, accepted, handlers, rateVars, countVars, totalVars,
                   budget, history>>

\* ------------------------------------------------------- the rate limiter

\* with rate_limit_lock: the lock can be taken when it is not held.
RateLockFreeAlways == TRUE
RateLockFree == ~rate_limit_lock

\* The end of a with block, however it is left: the lock is released.
UnlockNever(lock) == lock
Unlock(lock) == FALSE

\* The thread entering a with block holds its lock until it leaves the block.
Acquire(h, lock) == [h EXCEPT !.held = @ \cup {lock}]
ReleaseNothing(h, lock) == h
Release(h, lock) == [h EXCEPT !.held = @ \ {lock}]

\* [ts for ts in stamps if current_time - ts < RATE_WINDOW]
RECURSIVE PruneInclusive(_, _)
PruneInclusive(stamps, current_time) ==
    IF stamps = <<>> THEN <<>>
    ELSE IF current_time - Head(stamps) <= RATE_WINDOW
         THEN <<Head(stamps)>> \o PruneInclusive(Tail(stamps), current_time)
         ELSE PruneInclusive(Tail(stamps), current_time)
PruneNothing(stamps, current_time) == stamps
RECURSIVE Prune(_, _)
Prune(stamps, current_time) ==
    IF stamps = <<>> THEN <<>>
    ELSE IF current_time - Head(stamps) < RATE_WINDOW
         THEN <<Head(stamps)>> \o Prune(Tail(stamps), current_time)
         ELSE Prune(Tail(stamps), current_time)

\* len(rate_limit_data[client_ip]) >= RATE_LIMIT
LimitReachedEarly(stamps) == Len(stamps) >= RATE_LIMIT - 1
LimitReached(stamps) == Len(stamps) >= RATE_LIMIT

\* rate_limit_data[client_ip]: the entry of the dict a call reads and writes.
RateKeyShared(client_ip) == Client
RateKey(client_ip) == client_ip

\* is_rate_limited, to the end of the pruning assignment: the lock is taken,
\* the clock read, and the client's list replaced by its recent timestamps.
RateEnter(h) ==
    /\ h.pc = "start"
    /\ RateLockFree
    /\ rate_limit_lock' = TRUE
    /\ rate_limit_data' =
          [rate_limit_data EXCEPT ![RateKey(h.client_ip)] = Prune(@, now)]
    /\ Step(h, [Acquire(h, "rate_limit_lock") EXCEPT
                   !.pc = "rate_cs", !.current_time = now,
                   !.oldest = IF rate_limit_data[RateKey(h.client_ip)] = <<>>
                              THEN -1
                              ELSE Head(rate_limit_data[RateKey(h.client_ip)])])
    /\ last_call' = [last_call EXCEPT ![h.client_ip] = now]
    /\ UNCHANGED <<now, listener, accepted, countVars, totalVars, budget,
                   admitted, calls, served, ended>>

\* is_rate_limited, from the length test to the return, which frees the lock.
RateDecide(h) ==
    /\ h.pc = "rate_cs"
    /\ rate_limit_lock' = Unlock(rate_limit_lock)
    /\ IF LimitReached(rate_limit_data[RateKey(h.client_ip)])
       THEN /\ Step(h, [Release(h, "rate_limit_lock") EXCEPT
                               !.pc = "reject", !.limited = TRUE])
            /\ UNCHANGED <<rate_limit_data, admitted>>
       ELSE /\ Step(h, [Release(h, "rate_limit_lock") EXCEPT
                               !.pc = "total", !.limited = FALSE,
                               !.current_time = 0, !.oldest = -1])
            /\ rate_limit_data' =
                  [rate_limit_data EXCEPT
                      ![RateKey(h.client_ip)] = Append(@, h.current_time)]
            /\ admitted' = [admitted EXCEPT ![h.client_ip] = Append(@, h.current_time)]
    /\ UNCHANGED <<now, listener, accepted, countVars, totalVars, budget,
                   calls, served, ended, last_call>>

\* ----------------------------------------------------- the counter registry

\* with request_counts_lock / with total_requests_lock
RequestCountsLockFreeAlways == TRUE
RequestCountsLockFree == ~request_counts_lock
TotalRequestsLockFreeAlways == TRUE
TotalRequestsLockFree == ~total_requests_lock

\* increment_total_requests: the lock is taken and total_requests loaded.
TotalEnter(h) ==
    /\ h.pc = "total"
    /\ TotalRequestsLockFree
    /\ total_requests_lock' = TRUE
    /\ Step(h, [Acquire(h, "total_requests_lock") EXCEPT
                   !.pc = "total_cs", !.tmp = total_requests])
    /\ UNCHANGED <<now, listener, accepted, rateVars, countVars, total_requests,
                   budget, history>>

\* The time a sleep ends; every time past the clock's horizon is one time.
WakeAt(t) == IF t > MaxTime THEN MaxTime + 1 ELSE t

\* increment_total_requests: the sum is stored and the lock freed; then
\* handle_request calls time.sleep(1).
TotalStore(h) ==
    /\ h.pc = "total_cs"
    /\ total_requests' = h.tmp + 1
    /\ total_requests_lock' = Unlock(total_requests_lock)
    /\ Step(h, [Release(h, "total_requests_lock") EXCEPT
                   !.pc = "sleep", !.tmp = 0, !.total = @ + 1,
                   !.wake = WakeAt(now + SLEEP_SECONDS)])
    /\ UNCHANGED <<now, listener, accepted, rateVars, countVars, budget, history>>

\* increment_request_count(rel_path): the lock is taken and the count loaded.
CountEnter(h) ==
    /\ h.pc = "count"
    /\ RequestCountsLockFree
    /\ request_counts_lock' = TRUE
    /\ Step(h, [Acquire(h, "request_counts_lock") EXCEPT
                   !.pc = "count_cs",
                   !.tmp = request_counts[LocalsOf[h.parts].rel_path]])
    /\ UNCHANGED <<now, listener, accepted, rateVars, request_counts, totalVars,
                   budget, history>>

\* increment_request_count(rel_path): the sum is stored and the lock freed.
CountStore(h) ==
    /\ h.pc = "count_cs"
    /\ request_counts' =
          [request_counts EXCEPT ![LocalsOf[h.parts].rel_path] = h.tmp + 1]
    /\ request_counts_lock' = Unlock(request_counts_lock)
    /\ Step(h, [Release(h, "request_counts_lock") EXCEPT
                   !.pc = IF LocalsOf[h.parts].route = "dir" THEN "list"
                          ELSE "serve",
                   !.tmp = 0,
                   !.counts = Append(@, LocalsOf[h.parts].rel_path)])
    /\ calls' = [calls EXCEPT ![LocalsOf[h.parts].rel_path] = @ + 1]
    /\ UNCHANGED <<now, listener, accepted, rateVars, totalVars, budget,
                   admitted, served, ended, last_call>>

\* ------------------------------------------------- the end of a handler

\* finally: client_socket.close(), whether or not the try block raised.
CloseUnlessRaised(h, raised) == IF raised THEN h ELSE [h EXCEPT !.closed = TRUE]
Finally(h, raised) == [h EXCEPT !.closed = TRUE]

\* except Exception: a 500 is sent, and a failure of that send is swallowed.
\* prefix is what the socket took before the exception; left, how many more
\* operations may raise.
AfterRaise(prefix, left) ==
    (IF left >= 1
       THEN {[sent |-> Append(prefix, R500), used |-> 1, raised |-> TRUE]}
       ELSE {})
    \cup
    (IF left >= 2
       THEN {[sent |-> prefix, used |-> 2, raised |-> TRUE]}
       ELSE {})

\* client_socket.send(m) for each m of msgs in turn: all are taken, or one
\* raises and the except block runs.
Outcomes(msgs, left) ==
    {[sent |-> msgs, used |-> 0, raised |-> FALSE]}
    \cup UNION {AfterRaise(SubSeq(msgs, 1, k - 1), left) : k \in 1..Len(msgs)}

\* Handler h comes to its end with outcome o, being h2 by then: the socket is
\* closed and the thread is over.
EndWith(h, h2, o) ==
    LET last == Finally([h2 EXCEPT !.sent = @ \o o.sent], o.raised) IN
    /\ Return(h)
    /\ budget' = budget - o.used
    /\ ended' = [some |-> TRUE, parts |-> last.parts, limited |-> last.limited,
                 raised |-> o.raised, sent |-> last.sent,
                 recvd |-> last.recvd, closed |-> last.closed,
                 total |-> last.total, counts |-> last.counts, fs |-> last.fs]

\* handle_request, the branch of a rate-limited client: the 429 and return.
Send429(h) ==
    /\ h.pc = "reject"
    /\ \E o \in Outcomes(<<R429>>, budget) : EndWith(h, h, o)
    /\ UNCHANGED <<now, listener, accepted, rateVars, countVars, totalVars,
                   admitted, calls, served, last_call>>

\* ------------------------------------------------------------ the request

\* client_socket.recv(1024) has been called on the socket.
Received(h) == [h EXCEPT !.recvd = TRUE, !.wake = 0]

\* What the handler sends at once for a route that needs no counter.
ReplyBadRequest(route) ==
    IF route = "405" THEN <<R405>>
    ELSE IF route = "403" THEN <<R403>>
    ELSE IF route = "404" THEN <<R404>>
    ELSE <<Resp(400, {})>>
Reply(route) ==
    IF route = "405" THEN <<R405>>
    ELSE IF route = "403" THEN <<R403>>
    ELSE IF route = "404" THEN <<R404>>
    ELSE <<>>

\* handle_request, from the end of the sleep: recv and decode, the request
\* line's tokens, the method, the root shortcut, the containment test and the
\* existence tests.  A route that needs no counter is answered at once.
\* (lines is never empty: str.split returns at least one element.)
Recv(h, requests) ==
    /\ h.pc = "sleep"
    /\ now >= h.wake
    /\ Running < MaxRunning
    /\ \E raised \in {r \in BOOLEAN : r => budget > 0} :
          IF raised
          THEN \E o \in AfterRaise(<<>>, budget) : EndWith(h, Received(h), o)
          ELSE \E parts \in requests :
                 LET route == LocalsOf[parts].route
                     h2 == [Received(h) EXCEPT
                              !.parts = parts,
                              !.fs = route \in {"403", "dir", "404", "file"}]
                 IN  IF route \in {"drop", "405", "403", "404"}
                     THEN \E o \in Outcomes(Reply(route), budget) : EndWith(h, h2, o)
                     ELSE /\ Step(h, [h2 EXCEPT
                                        !.pc = IF route = "root" THEN "list"
                                               ELSE "count"])
                          /\ UNCHANGED <<budget, ended>>
    /\ UNCHANGED <<now, listener, accepted, rateVars, countVars, totalVars,
                   admitted, calls, served, last_call>>

\* ------------------------------------------------------------ the listing

\* generate_directory_listing, to the start of its loop: total_requests is
\* formatted into the page, then the directory is read and sorted.
ListStart(h) ==
    /\ h.pc = "list"
    /\ Step(h, [h EXCEPT !.pc = "items", !.fs = TRUE,
                         !.shown_total = total_requests,
                         !.page = Joined(LocalsOf[h.parts].heading,
                                         Measure(Str(total_requests))),
                         !.start = [i \in 1..Len(LocalsOf[h.parts].items) |->
                                      request_counts[CountedUnder[h.parts][i]]],
                         !.items = LocalsOf[h.parts].items])
    /\ UNCHANGED <<now, listener, accepted, rateVars, countVars, totalVars,
                   budget, history>>

\* generate_directory_listing, one turn of the loop: get_request_count reads
\* the entry's count under request_counts_lock and the entry is rendered.
ListItem(h) ==
    /\ h.pc = "items"
    /\ h.items # <<>>
    /\ RequestCountsLockFree
    /\ LET item == Head(h.items)
           i == Len(LocalsOf[h.parts].items) - Len(h.items) + 1
           count == request_counts[LocalsOf[h.parts].keys[i]]
       IN  Step(h, [h EXCEPT !.items = Tail(@),
                            !.html = Append(@, <<item, count>>),
                            !.page = Joined(@, Joined(LocalsOf[h.parts].names[i],
                                                      Measure(Str(count))))])
    /\ UNCHANGED <<now, listener, accepted, rateVars, countVars, totalVars,
                   budget, history>>

\* A 200 has been sent in full for the path the request resolves to.
Served(parts) ==
    IF LocalsOf[parts].route = "root" THEN served
    ELSE [served EXCEPT ![LocalsOf[parts].rel_path] = @ + 1]

\* The Content-Length header of a listing: len(html_content.encode()) for /,
\* len(html_content) for any other directory.
ListingLength(route, html_content) ==
    IF route = "root" THEN html_content.bytes ELSE html_content.chars

\* handle_request: the listing is sent as a 200, headers first.
SendListing(h) ==
    /\ h.pc = "items"
    /\ h.items = <<>>
    /\ LET route == LocalsOf[h.parts].route
           content_type == IF route = "root"
                           THEN "text/html; charset=utf-8" ELSE "text/html"
       IN  \E o \in Outcomes(<<R200(content_type, ListingLength(route, h.page)),
                                Body(h.page.bytes)>>, budget) :
              /\ EndWith(h, h, o)
              /\ served' = IF o.raised THEN served ELSE Served(h.parts)
    /\ UNCHANGED <<now, listener, accepted, rateVars, countVars, totalVars,
                   admitted, calls, last_call>>

\* ---------------------------------------------------------------- the file

\* handle_request, after the file's counter: the content type, the read of
\* the file and the two sends.  open() raises for a path that is no file.
ServeFile(h) ==
    /\ h.pc = "serve"
    /\ LET content_type == LocalsOf[h.parts].content_type
           file_content == LocalsOf[h.parts].file_content.bytes
           outcomes ==
              IF content_type = "none" THEN Outcomes(<<R415>>, budget)
              ELSE IF ~LocalsOf[h.parts].is_file THEN AfterRaise(<<>>, budget + 1)
              ELSE Outcomes(<<R200(content_type, file_content),
                              Body(file_content)>>, budget)
                      \cup AfterRaise(<<>>, budget)
       IN  \E o \in outcomes :
              IF o.raised \/ content_type = "none"
              THEN /\ EndWith(h, h, o)
                   /\ UNCHANGED served
              ELSE /\ Step(h, [h EXCEPT !.pc = "log", !.sent = @ \o o.sent])
                   /\ served' = Served(h.parts)
                   /\ UNCHANGED <<budget, ended>>
    /\ UNCHANGED <<now, listener, accepted, rateVars, countVars, totalVars,
                   admitted, calls, last_call>>

\* handle_request: the closing print reads the count with get_request_count,
\* and the handler returns.
LogCount(h) ==
    /\ h.pc = "log"
    /\ RequestCountsLockFree
    /\ EndWith(h, h, [sent |-> <<>>, used |-> 0, raised |-> FALSE])
    /\ UNCHANGED <<now, listener, accepted, rateVars, countVars, totalVars,
                   admitted, calls, served, last_call>>

\* --------------------------------------------------------- specifications

\* A few connections of two clients, asking for anything.
Next ==
    \/ Tick
    \/ Accept(MaxConns, IPs)
    \/ \E h \in Live : RateEnter(h)
    \/ \E h \in Live : RateDecide(h)
    \/ \E h \in Live : TotalEnter(h)
    \/ \E h \in Live : TotalStore(h)
    \/ \E h \in Live : Recv(h, Requests)
    \/ \E h \in Live : CountEnter(h)
    \/ \E h \in Live : CountStore(h)
    \/ \E h \in Live : ListStart(h)
    \/ \E h \in Live : ListItem(h)
    \/ \E h \in Live : SendListing(h)
    \/ \E h \in Live : ServeFile(h)
    \/ \E h \in Live : LogCount(h)

Spec == Init /\ [][Next]_vars

\* Many connections of one client asking for one thing: the runs in which
\* the rate limiter rejects.
NextRate ==
    \/ Tick
    \/ Accept(RateConns, {Client})
    \/ \E h \in Live : RateEnter(h)
    \/ \E h \in Live : RateDecide(h)
    \/ \E h \in Live : Send429(h)
    \/ \E h \in Live : TotalEnter(h)
    \/ \E h \in Live : TotalStore(h)
    \/ \E h \in Live : Recv(h, RateRequests)

SpecRate == Init /\ [][NextRate]_vars

\* The same runs with a clock that goes on (to its horizon).
FairRate == SpecRate /\ WF_vars(Tick)

\* Connections of the second client so far: none of them is rejected, being
\* fewer than RATE_LIMIT.
OtherSoFar ==
    Len(admitted[Other])
        + BagCardinality([h \in {x \in Live : /\ x.client_ip = Other
                                              /\ x.pc \in {"start", "rate_cs"}}
                            |-> handlers[h]])

\* Two clients whose connections interleave, the first until the rate limiter
\* rejects it, the second with a few connections in between.
NextPair ==
    \/ Tick
    \/ Accept(RateConns, {Client})
    \/ OtherSoFar < OtherConns /\ Accept(RateConns, {Other})
    \/ \E h \in Live : RateEnter(h)
    \/ \E h \in Live : RateDecide(h)
    \/ \E h \in Live : Send429(h)
    \/ \E h \in Live : TotalEnter(h)
    \/ \E h \in Live : TotalStore(h)
    \/ \E h \in Live : Recv(h, RateRequests)

\* No I/O operation raises in these runs.
SpecPair == InitWith(0) /\ [][NextPair]_vars

\* The listener with its ways out of the loop, and connections for one file.
MainRequests == {R_file}
NextMain ==
    \/ Tick
    \/ Accept(MaxConns, {Client})
    \/ AcceptRaises
    \/ StartRaises(MaxConns)
    \/ Interrupt
    \/ Exit
    \/ \E h \in Live : RateEnter(h)
    \/ \E h \in Live : RateDecide(h)
    \/ \E h \in Live : TotalEnter(h)
    \/ \E h \in Live : TotalStore(h)
    \/ \E h \in Live : Recv(h, MainRequests)
    \/ \E h \in Live : CountEnter(h)
    \/ \E h \in Live : CountStore(h)
    \/ \E h \in Live : ServeFile(h)
    \/ \E h \in Live : LogCount(h)

SpecMain == Init /\ [][NextMain]_vars

\* One request for every way through handle_request and its locks.
FairRequests == {R_root, R_file, R_text, R_missing, R_dir, R_post, R_bad}
NextFair ==
    \/ Tick
    \/ Accept(MaxConns, IPs)
    \/ \E h \in Live : RateEnter(h)
    \/ \E h \in Live : RateDecide(h)
    \/ \E h \in Live : TotalEnter(h)
    \/ \E h \in Live : TotalStore(h)
    \/ \E h \in Live : Recv(h, FairRequests)
    \/ \E h \in Live : CountEnter(h)
    \/ \E h \in Live : CountStore(h)
    \/ \E h \in Live : ListStart(h)
    \/ \E h \in Live : ListItem(h)
    \/ \E h \in Live : SendListing(h)
    \/ \E h \in Live : ServeFile(h)
    \/ \E h \in Live : LogCount(h)

\* Some handler thread takes a step.
HandlerStep ==
    \E h \in Live :
        \/ RateEnter(h) \/ RateDecide(h) \/ TotalEnter(h) \/ TotalStore(h)
        \/ Recv(h, FairRequests) \/ CountEnter(h) \/ CountStore(h)
        \/ ListStart(h) \/ ListItem(h) \/ SendListing(h)
        \/ ServeFile(h) \/ LogCount(h)

\* The runs in which a thread that can run is not left waiting for ever: the
\* operating system schedules runnable threads.
FairSpec == Init /\ [][NextFair]_vars /\ WF_vars(HandlerStep)

\* ------------------------------------------------------------ properties

\* No handler is in flight.
Quiescent == handlers = EmptyBag

RECURSIVE SumLen(_, _)
SumLen(f, S) ==
    IF S = {} THEN 0
    ELSE LET x == CHOOSE y \in S : TRUE IN Len(f[x]) + SumLen(f, S \ {x})

\* Calls of is_rate_limited that returned False, over all clients.
AdmittedCount == SumLen(admitted, IPs)

\* Admissions of client ip at a time t with from <= t < from + RATE_WINDOW.
AdmittedIn(ip, from) ==
    Cardinality({i \in 1..Len(admitted[ip]) :
                    from <= admitted[ip][i] /\ admitted[ip][i] < from + RATE_WINDOW})

\* path, resolved, is base or lies under it: a comparison of path components.
Inside(path, base) ==
    LET p == Segs(path)
        b == Segs(base)
    IN  Len(b) <= Len(p) /\ SubSeq(p, 1, Len(b)) = b

\* The handler that ended last was admitted with a GET for a path other than /.
EndedGet ==
    /\ ended.some
    /\ ~ended.limited
    /\ Len(ended.parts) >= 2
    /\ ended.parts[1] = "GET"
    /\ ended.parts[2] # <<"/">>

\* C1: for every client, any window of RATE_WINDOW holds at most RATE_LIMIT
\* admissions, whatever the interleaving of the handlers; a call that finds
\* the window full is rejected and its handler answers 429.
C1_AtMostLimitPerWindow ==
    /\ \A ip \in IPs : \A from \in (0 - RATE_WINDOW)..MaxTime :
          AdmittedIn(ip, from) <= RATE_LIMIT
    /\ (ended.some /\ ended.limited /\ ~ended.raised)
          => (Len(ended.sent) = 1 /\ ended.sent[1].status = 429)

C1_Witness ==
    /\ \E from \in 0..MaxTime : AdmittedIn(Client, from) = RATE_LIMIT
    /\ ended.some /\ ended.limited /\ ~ended.raised
    /\ \E h \in Live : h.pc = "sleep"

\* C2: a rate-limited handler sends the 429 with Retry-After: 1 and then only
\* closes the socket: it has incremented neither total_requests nor a path
\* counter, has not read from the socket and has touched no file or directory.
C2_RejectedDoesNothingElse ==
    (ended.some /\ ended.limited) =>
        /\ ended.total = 0
        /\ ended.counts = <<>>
        /\ ~ended.recvd
        /\ ~ended.fs
        /\ ended.closed
        /\ ~ended.raised =>
              /\ Len(ended.sent) = 1
              /\ ended.sent[1].status = 429
              /\ "Retry-After: 1" \in ended.sent[1].headers

C2_Witness ==
    /\ ended.some /\ ended.limited
    /\ ended.sent = <<R429>>
    /\ total_requests = RATE_LIMIT

\* C3: once all handlers have ended, a path all of whose counted requests were
\* served in full has a count equal to the number of those requests: no
\* increment made by concurrent handlers is lost.
C3_NoLostIncrement ==
    Quiescent =>
        \A k \in CountKeys : calls[k] = served[k] => request_counts[k] = served[k]

C3_Witness ==
    /\ Quiescent
    /\ served[rel_path(R_file)] = 2
    /\ request_counts[rel_path(R_file)] = 2

\* C4: an admitted GET whose resolved path lies outside the served directory
\* is answered 403 and no counter is incremented for it.
C4_OutsideIsForbidden ==
    (EndedGet /\ ~ended.raised /\ ~Inside(RealFile(ended.parts), BASE)) =>
        /\ Len(ended.sent) = 1
        /\ ended.sent[1].status = 403
        /\ ended.counts = <<>>

\* C5: an admitted GET for an existing file of the served directory whose
\* extension has no MIME type is answered 415 and increments no counter.
C5_UnsupportedNotCounted ==
    (/\ EndedGet
     /\ Inside(RealFile(ended.parts), BASE)
     /\ IsFile(FilePath(ended.parts))
     /\ get_content_type(FilePath(ended.parts)) = "none") =>
        /\ ended.counts = <<>>
        /\ ~ended.raised => (Len(ended.sent) = 1 /\ ended.sent[1].status = 415)

\* C6: an admitted GET for a path of the served directory that is neither a
\* directory nor a file is answered 404 and increments no counter.
C6_MissingIs404 ==
    (/\ EndedGet
     /\ Inside(RealFile(ended.parts), BASE)
     /\ ~IsDir(FilePath(ended.parts))
     /\ ~IsFile(FilePath(ended.parts))) =>
        /\ ended.counts = <<>>
        /\ ~ended.raised => (Len(ended.sent) = 1 /\ ended.sent[1].status = 404)

C6_Witness ==
    /\ ended.some
    /\ ended.parts = R_missing
    /\ ended.sent = <<R404>>
    /\ ended.counts = <<>>

\* C7: with no handler in flight, every path's count is the number of
\* requests for it that were answered 200.
C7_CountIsServed ==
    Quiescent => \A k \in CountKeys : request_counts[k] = served[k]

\* C8: every admitted handler increments total_requests exactly once and a
\* rejected one never does; once all handlers have ended, total_requests is
\* the number of admitted requests.
C8_TotalIsAdmitted ==
    /\ ended.some => ended.total = (IF ended.limited THEN 0 ELSE 1)
    /\ Quiescent => total_requests = AdmittedCount

C8_Witness ==
    /\ Quiescent
    /\ accepted > RATE_LIMIT
    /\ AdmittedCount = RATE_LIMIT
    /\ total_requests = RATE_LIMIT

\* C9: a handler that has ended has closed its client socket, whether it
\* returned or raised.
C9_SocketClosed == ended.some => ended.closed

C9_Witness == ended.some /\ ended.raised /\ ended.closed

\* Every lock is held by just the handlers inside its critical section.
LocksOwned ==
    /\ At({"rate_cs"}) = (IF rate_limit_lock THEN 1 ELSE 0)
    /\ At({"total_cs"}) = (IF total_requests_lock THEN 1 ELSE 0)
    /\ At({"count_cs"}) = (IF request_counts_lock THEN 1 ELSE 0)

\* The shared structures are as their increments and admissions left them.
SharedConsistent ==
    /\ \A k \in CountKeys : request_counts[k] = calls[k]
    /\ total_requests = AdmittedCount - At({"total", "total_cs"})
    /\ \A ip \in IPs :
          /\ Len(rate_limit_data[ip]) <= RATE_LIMIT
          /\ Len(rate_limit_data[ip]) <= Len(admitted[ip])
          /\ rate_limit_data[ip] =
                SubSeq(admitted[ip],
                       Len(admitted[ip]) - Len(rate_limit_data[ip]) + 1,
                       Len(admitted[ip]))

StatusLines(sent) == Cardinality({i \in 1..Len(sent) : sent[i].status # 0})

\* C11: a connection is sent at most one status line, so a 500 is never sent
\* after another status line: the 500 answers only faults that occur before
\* any response was sent.
C11_OneStatusLine ==
    ended.some =>
        /\ StatusLines(ended.sent) <= 1
        /\ \A i \in 1..Len(ended.sent) : ended.sent[i].status = 500 => i = 1

\* Handlers about to enter a with block: they wait until its lock is free.
LockWaiters ==
    At({"start", "total", "count", "log"})
    + BagCardinality([h \in {x \in Live : x.pc = "items" /\ x.items # <<>>}
                        |-> handlers[h]])

\* C12: no thread holds two of the three locks at once, and under fair
\* scheduling every thread waiting for a lock gets it: from some point on no
\* thread is waiting.
C12_NoDeadlock ==
    /\ [](\A h \in Live : Cardinality(h.held) <= 1)
    /\ <>[](LockWaiters = 0)

C12_Witness ==
    /\ rate_limit_lock
    /\ At({"start"}) > 0
    /\ \E h \in Live : h.held = {"rate_limit_lock"}

\* C13: every step that writes or reads a path counter or the server total
\* is taken by a thread holding the lock that guards it; the reads made by
\* get_request_count take and free request_counts_lock within the step.
C13_AccessUnderLock ==
    [][\A h \in Live :
          /\ TotalStore(h) => "total_requests_lock" \in h.held
          /\ CountStore(h) => "request_counts_lock" \in h.held
          /\ (ListItem(h) \/ LogCount(h)) => RequestCountsLockFree
          /\ ListStart(h) => "total_requests_lock" \in h.held]_vars

\* C14: an admitted request with a parseable request line and a method other
\* than GET is answered 405 whatever its path, with no path counter changed
\* and no path resolved or file touched.
C14_NonGetIs405 ==
    (/\ ended.some
     /\ ~ended.limited
     /\ Len(ended.parts) >= 2
     /\ ended.parts[1] # "GET") =>
        /\ ended.counts = <<>>
        /\ ~ended.fs
        /\ ~ended.raised => (Len(ended.sent) = 1 /\ ended.sent[1].status = 405)

C14_Witness ==
    /\ ended.some
    /\ ended.parts \in {R_post_root, R_post_escape, R_post_text, R_post_missing}
    /\ ended.sent = <<R405>>
    /\ ~ended.fs

\* The names a listing in progress shows: those rendered, then those to come.
ListingNames(h) == [i \in 1..Len(h.html) |-> h.html[i][1]] \o h.items

\* C15: an admitted GET / reaches the listing without path resolution or an
\* existence test, lists exactly the immediate children of the served
\* directory in ascending order, is answered 200 and changes no path counter.
C15_RootListing ==
    /\ \A h \in Live : h.parts = R_root =>
          /\ h.counts = <<>>
          /\ h.pc = "list" => ~h.fs
          /\ h.pc = "items" =>
                LET names == ListingNames(h) IN
                /\ {names[i] : i \in 1..Len(names)} = Children(BASE)
                /\ \A i, j \in 1..Len(names) : i < j => Less(names[i], names[j])
    /\ (ended.some /\ ended.parts = R_root) =>
          /\ ended.counts = <<>>
          /\ ~ended.raised =>
                /\ Len(ended.sent) = 2
                /\ ended.sent[1].status = 200
                /\ "Content-Type: text/html; charset=utf-8" \in ended.sent[1].headers
                /\ ended.sent[2].status = 0

C15_Witness ==
    /\ ended.some /\ ended.parts = R_root /\ ~ended.raised
    /\ ended.sent[1].status = 200
    /\ Cardinality(Children(BASE)) = 2

\* Admissions of client ip in the window of length RATE_WINDOW that ends at t.
TrailingAdmitted(ip, t) ==
    Cardinality({i \in 1..Len(admitted[ip]) :
                    admitted[ip][i] <= t /\ t - admitted[ip][i] < RATE_WINDOW})

\* C16: a call is rejected only when the client has RATE_LIMIT admissions in
\* the window that ends at the call; so the first RATE_LIMIT requests of an
\* idle client are admitted, and a rejected one is answered 429 with
\* Retry-After: 1.
C16_AdmittedBelowLimit ==
    /\ \A h \in Live : h.pc = "reject" =>
          TrailingAdmitted(h.client_ip, h.current_time) >= RATE_LIMIT
    /\ accepted <= RATE_LIMIT => (At({"reject"}) = 0 /\ ~ended.limited)
    /\ (ended.some /\ ended.limited) =>
          /\ Len(admitted[Client]) >= RATE_LIMIT
          /\ ~ended.raised => ended.sent = <<R429>>

C16_Witness ==
    /\ now < RATE_WINDOW
    /\ accepted = RATE_LIMIT + 1
    /\ Len(admitted[Client]) = RATE_LIMIT
    /\ At({"reject"}) = 1
    /\ At({"sleep"}) = RATE_LIMIT

\* The timestamps of stamps less than RATE_WINDOW older than t.
RecentOf(stamps, t) == SelectSeq(stamps, LAMBDA ts : t - ts < RATE_WINDOW)

\* C19: each client's list holds at most RATE_LIMIT timestamps, in
\* non-decreasing order, each less than RATE_WINDOW older than the client's
\* last call of is_rate_limited; it is exactly the admissions that recent, so
\* a rejecting call records nothing and an admitting call appends one.
C19_WindowList ==
    \A ip \in IPs :
        LET stamps == rate_limit_data[ip] IN
        /\ Len(stamps) <= RATE_LIMIT
        /\ \A i, j \in 1..Len(stamps) : i < j => stamps[i] <= stamps[j]
        /\ \A i \in 1..Len(stamps) : last_call[ip] - stamps[i] < RATE_WINDOW
        /\ stamps = RecentOf(admitted[ip], last_call[ip])

C19_Witness ==
    /\ ended.some /\ ended.limited
    /\ Len(admitted[Client]) > Len(rate_limit_data[Client])
    /\ rate_limit_data[Client] # <<>>

\* C17: the accept loop is left only by an interrupt: an error of accept or
\* of starting the handler thread for one connection does not end it.
C17_LoopSurvivesConnectionErrors == listener \notin {"raised", "crashed"}

\* C18: when the process ends after an interrupt, no handler is cut off:
\* every handler in flight at the interrupt has run to its end.
C18_InFlightHandlersFinish == listener = "exited" => handlers = EmptyBag

RECURSIVE SumOver(_, _)
SumOver(f, S) ==
    IF S = {} THEN 0
    ELSE LET x == CHOOSE y \in S : TRUE IN f[x] + SumOver(f, S \ {x})

\* The sum of all path counters.
CountsSum == SumOver(request_counts, CountKeys)

\* C20: a request increments at most one path counter, at most once; a 200
\* for a file or a directory other than / follows exactly one increment of
\* the path served; no counter and not the total ever decreases; the path
\* counters sum to at most total_requests.
C20_CountersBounded ==
    /\ [](/\ \A h \in Live : Len(h.counts) <= 1
          /\ \A h \in Live : h.pc = "log" => h.counts = <<rel_path(h.parts)>>
          /\ ended.some => Len(ended.counts) <= 1
          /\ (/\ EndedGet
              /\ ended.sent # <<>>
              /\ ended.sent[1].status = 200) =>
                 ended.counts = <<rel_path(ended.parts)>>
          /\ CountsSum <= total_requests)
    /\ [][/\ total_requests' >= total_requests
          /\ \A k \in CountKeys : request_counts'[k] >= request_counts[k]]_vars

C20_Witness ==
    /\ request_counts[rel_path(R_file)] = 1
    /\ request_counts[rel_path(R_dir)] = 1
    /\ total_requests = 2
    /\ ended.some /\ EndedGet /\ Len(ended.sent) = 2
    /\ ended.sent[1].status = 200
    /\ "Content-Type: text/html" \in ended.sent[1].headers

\* C21: an admitted connection whose data holds no request line with a method
\* and a path (nothing at all, or a single token) ends with its socket closed,
\* nothing sent, no path counter touched and the file system not consulted,
\* after one increment of total_requests; and every connection whose
\* is_rate_limited call returned False is on record in its client's log.
C21_MalformedIsDropped ==
    /\ (ended.some /\ ended.recvd /\ ~ended.raised /\ ~ended.limited
            /\ Len(ended.parts) < 2)
          => /\ ended.sent = <<>>
             /\ ended.counts = <<>>
             /\ ~ended.fs
             /\ ended.closed
             /\ ended.total = 1
             /\ AdmittedCount >= 1
             /\ total_requests >= 1
    /\ accepted < RATE_LIMIT => AdmittedCount = accepted - At({"start", "rate_cs"})
C21_Witness ==
    /\ ended.some /\ ended.recvd /\ ~ended.raised /\ ended.parts = R_empty
    /\ ended.total = 1
    /\ \E h \in Live : h.pc = "sleep"
C21_WitnessToken ==
    /\ ended.some /\ ended.recvd /\ ~ended.raised /\ ended.parts = R_bad
    /\ ended.closed

\* C22: while a listing is rendered, the total it shows and every count it
\* has rendered so far is a value the counter of that entry took between the
\* start of the rendering and now: not below the counter at the start, not
\* above the counter now (counters move in steps of one, so every value in
\* between was held); the total includes the renderer's own increment.
C22_ShownValuesWereHeld ==
    \A h \in Live :
       h.pc = "items" =>
          /\ h.total <= h.shown_total
          /\ h.shown_total <= total_requests
          /\ \A i \in 1..Len(h.html) :
                LET k == CountedUnder[h.parts][i] IN
                /\ h.html[i][1] = ListDir(ListedDir(h.parts))[i]
                /\ h.start[i] <= h.html[i][2]
                /\ h.html[i][2] <= request_counts[k]
\* A listing is complete and shows a count that was incremented while it was
\* rendered.
C22_Witness ==
    \E h \in Live :
       /\ h.pc = "items" /\ h.items = <<>>
       /\ \E i \in 1..Len(h.html) :
             h.start[i] < h.html[i][2]
\* A listing is complete and a counter has moved on since it was read.
C22_WitnessMoved ==
    \E h \in Live :
       /\ h.pc = "items" /\ h.items = <<>>
       /\ \E i \in 1..Len(h.html) :
             h.html[i][2] < request_counts[CountedUnder[h.parts][i]]
\* A listing is being rendered and total_requests has moved on since it was
\* formatted into the page.
C22_WitnessTotal ==
    \E h \in Live : h.pc = "items" /\ h.shown_total < total_requests

\* C23: no handler keeps the listener from accepting: whatever the handlers
\* in flight are doing (sleeping, waiting for a lock, about to read or send),
\* the listener that is in its loop can take the next connection; and every
\* connection that is accepted is handed to exactly one new handler thread,
\* the handlers already running being left as they are.
C23_AcceptNeverBlocked ==
    /\ []((listener = "accepting" /\ accepted < MaxConns /\ Running < MaxRunning)
             => ENABLED Accept(MaxConns, {Client}))
    /\ [][accepted' = accepted + 1
             => \E ip \in IPs : handlers' = handlers (+) SetToBag({NewHandler(ip)})]_vars

\* is_rate_limited run for one client alone, from the list stamps: the list
\* it keeps after calls at the times ts, and the verdict of each call (TRUE:
\* rate limited).
RECURSIVE AloneRun(_, _, _)
AloneRun(stamps, ts, verdicts) ==
    IF ts = <<>> THEN [list |-> stamps, verdicts |-> verdicts]
    ELSE LET kept == Prune(stamps, Head(ts))
             limited == LimitReached(kept)
         IN  AloneRun(IF limited THEN kept ELSE Append(kept, Head(ts)),
                      Tail(ts), Append(verdicts, limited))
Alone(ts) == AloneRun(<<>>, ts, <<>>)

\* The admissions of client ip at times up to t.
AdmittedUpTo(ip, t) == SelectSeq(admitted[ip], LAMBDA ts : ts <= t)

\* C24: whatever the other clients do in between, a client's calls of
\* is_rate_limited get the verdicts they get when the limiter serves that
\* client alone: every call that was admitted is admitted alone, every call
\* that is rejected is rejected alone, and the client's list is the list kept
\* alone; and only a call for a client changes that client's list.
C24_ClientsIndependent ==
    /\ [](\A ip \in IPs :
            LET alone == Alone(admitted[ip]) IN
            /\ \A i \in 1..Len(admitted[ip]) : ~alone.verdicts[i]
            /\ rate_limit_data[ip] = Prune(alone.list, last_call[ip])
            /\ \A h \in Live :
                  (h.pc = "reject" /\ h.client_ip = ip) =>
                     LET call == Alone(Append(AdmittedUpTo(ip, h.current_time),
                                              h.current_time))
                     IN  call.verdicts[Len(call.verdicts)])
    /\ [][\A ip \in IPs :
             rate_limit_data'[ip] # rate_limit_data[ip] =>
                \E h \in Live :
                   /\ h.client_ip = ip
                   /\ h.pc \in {"start", "rate_cs"}
                   /\ CopiesIn(h, handlers') < CopiesIn(h, handlers)]_vars
\* One client is rejected at a time at which the other has been admitted and
\* holds timestamps of its own.
C24_Witness ==
    /\ \E h \in Live : h.pc = "reject" /\ h.client_ip = Client
    /\ Len(rate_limit_data[Client]) = RATE_LIMIT
    /\ rate_limit_data[Other] # <<>>
    /\ \E i \in 1..Len(admitted[Other]) :
          /\ admitted[Client][1] <= admitted[Other][i]
          /\ admitted[Other][i] <= admitted[Client][RATE_LIMIT]

\* A call of is_rate_limited made now for the client would be admitted.
Room == Len(Prune(rate_limit_data[Client], now)) < RATE_LIMIT

\* C25: no client is locked out for good.  A call made RATE_WINDOW or more
\* after the oldest timestamp the client's list held is admitted, so a
\* rejected call is less than RATE_WINDOW after that timestamp; and as the
\* clock goes on, a rejection (whose window ends within the clock's horizon)
\* is followed by a moment at which a call of the client would be admitted.
C25_NoPermanentLockout ==
    /\ [](\A h \in Live :
            /\ (h.pc = "rate_cs" /\ h.oldest >= 0
                    /\ h.current_time - h.oldest >= RATE_WINDOW)
                  => ~LimitReached(rate_limit_data[h.client_ip])
            /\ h.pc = "reject" =>
                  /\ h.oldest >= 0
                  /\ h.current_time - h.oldest < RATE_WINDOW)
    /\ (/\ ~Room
         /\ \E h \in Live : /\ h.pc = "reject"
                             /\ h.oldest = Head(rate_limit_data[Client])
                             /\ h.oldest + RATE_WINDOW <= MaxTime)
           ~> Room
\* The client was rejected, the clock went on, and a call it made a window
\* after its oldest timestamp is about to be admitted.
C25_Witness ==
    /\ ended.some /\ ended.limited
    /\ \E h \in Live : /\ h.pc = "rate_cs"
                        /\ h.oldest >= 0
                        /\ h.current_time - h.oldest >= RATE_WINDOW
                        /\ ~LimitReached(rate_limit_data[h.client_ip])
    /\ Len(admitted[Client]) = RATE_LIMIT

\* C26: every 200 that was sent in full carries a Content-Type and a
\* Content-Length header, and the Content-Length is the number of bytes of
\* the body sent after it.
C26_ContentLengthIsBodyBytes ==
    (/\ ended.some /\ ~ended.raised
     /\ ended.sent # <<>>
     /\ ended.sent[1].status = 200)
       => /\ Len(ended.sent) = 2
          /\ \E t \in {"text/html; charset=utf-8", "text/html", "image/png",
                        "application/pdf"} :
                "Content-Type: " \o t \in ended.sent[1].headers
          /\ "Content-Length" \in ended.sent[1].headers
          /\ ended.sent[1].content_length = ended.sent[2].bytes
====
